---- MODULE Spec2Model ----
(***************************************************************************)
(* Model of mem_access: a sparse, paged, byte-addressable memory with a    *)
(* linear transaction journal (src/src/lib.rs, struct Memory).             *)
(*                                                                         *)
(* Option<T> is modelled as a sequence of length 0 (None) or 1 (Some).     *)
(* Option<NonZeroU32> is modelled as a natural number, None being 0.       *)
(* A panic (assert!, index out of bounds, unreachable!) aborts the caller: *)
(* the call is recorded with result "panic" and nothing runs after it.     *)
(***************************************************************************)
EXTENDS Integers, Sequences, FiniteSets

VARIABLES memory, transactions, transaction_idx, last, call, seen, pre,
          returned, naive

vars == <<memory, transactions, transaction_idx, last, call, seen, pre,
          returned, naive>>

(***************************************************************************)
(* Construction parameters and bounds.                                     *)
(***************************************************************************)
NUM_PAGES == 4
PAGE_SIZE == 4
default_value == 171

MaxTransactions == 2

SPACE == NUM_PAGES * PAGE_SIZE
\* Inputs of add_transaction.  The addresses are a byte inside a page, the
\* last byte of a page, the first byte of the last page and the end of the
\* address space.  The payloads are empty, one byte, a page long, a
\* byte longer than a page, and long enough to cover two whole pages between
\* a head and a tail.
Addrs == {1, PAGE_SIZE - 1, SPACE - PAGE_SIZE, SPACE}
Payloads == {<< >>,
             <<9>>,
             <<4, 3, 2, 1>>,
             <<0, 1, 2, 3, 4>>,
             <<5, 6, 7, 8, 10, 11, 12, 13, 14, 15>>}
CodeLocations == {7}

(***************************************************************************)
(* Shift / mask arithmetic of the range walker.                            *)
(***************************************************************************)
RECURSIVE ilog2(_)
ilog2(n) == IF n <= 1 THEN 0 ELSE 1 + ilog2(n \div 2)

RECURSIVE pow2(_)
pow2(k) == IF k = 0 THEN 1 ELSE 2 * pow2(k - 1)

Shr(a, s) == a \div pow2(s)
Shl(a, s) == a * pow2(s)
\* a & mask for a mask of the form 2^k - 1
BitAnd(a, mask) == a % (mask + 1)

in_page_addr_mask == Shl(1, ilog2(PAGE_SIZE)) - 1
page_addr_shift == ilog2(PAGE_SIZE)

\* NonZeroU32::new(n as u32): n modulo 2^32, None (0) when that is 0.
\* 2^32 is HALF_U32 * HALF_U32; the sum below is n modulo that product.
HALF_U32 == pow2(16)
NonZeroU32(n) == (n % HALF_U32) + HALF_U32 * ((n \div HALF_U32) % HALF_U32)

Repeat(v, n) == [i \in 1..n |-> v]
\* s[lo..hi) with 0-based bounds, as a Rust slice
Slice(s, lo, hi) == [i \in 1..(hi - lo) |-> s[lo + i]]

(***************************************************************************)
(* Page store.                                                             *)
(***************************************************************************)
None == << >>
Some(v) == <<v>>

PageNew(dv) ==
    [data |-> [i \in 0..(PAGE_SIZE - 1) |-> dv],
     transaction_ids |-> [i \in 0..(PAGE_SIZE - 1) |-> 0]]

MemoryNew == [idx \in 0..(NUM_PAGES - 1) |-> None]

\* The value of a store whose update hit the unreachable!() branch.
Unreachable == << >>

read_page_data(mem, idx, in_page_start_addr, in_page_end_addr) ==
    IF mem[idx] # None
    THEN [i \in 1..(in_page_end_addr + 1 - in_page_start_addr) |->
            mem[idx][1].data[in_page_start_addr + i - 1]]
    ELSE Repeat(default_value, in_page_end_addr + 1 - in_page_start_addr)

read_page_transaction_ids(mem, idx, in_page_start_addr, in_page_end_addr) ==
    IF mem[idx] # None
    THEN [i \in 1..(in_page_end_addr + 1 - in_page_start_addr) |->
            mem[idx][1].transaction_ids[in_page_start_addr + i - 1]]
    ELSE Repeat(NonZeroU32(0), in_page_end_addr + 1 - in_page_start_addr)

\* assert!(size > 0) fails, or a page index falls outside memory[..]
ReadPanics(addr, size) ==
    \/ size = 0
    \/ Shr(addr + size - 1, page_addr_shift) >= NUM_PAGES

RECURSIVE ReadMiddle(_, _, _)
ReadMiddle(mem, page_idx, end_page_addr) ==
    IF page_idx >= end_page_addr THEN << >>
    ELSE read_page_data(mem, page_idx, 0, PAGE_SIZE - 1)
            \o ReadMiddle(mem, page_idx + 1, end_page_addr)

read(mem, addr, size) ==
    LET start_addr == addr
        end_addr == addr + size - 1
        start_page_addr == Shr(start_addr, page_addr_shift)
        end_page_addr == Shr(end_addr, page_addr_shift)
        in_page_start_addr == BitAnd(start_addr, in_page_addr_mask)
        in_page_end_addr == BitAnd(end_addr, in_page_addr_mask)
    IN  IF start_page_addr = end_page_addr
        THEN read_page_data(mem, start_page_addr, in_page_start_addr, in_page_end_addr)
        ELSE read_page_data(mem, start_page_addr, in_page_start_addr, PAGE_SIZE - 1)
                \o ReadMiddle(mem, start_page_addr + 1, end_page_addr)
                \o read_page_data(mem, end_page_addr, 0, in_page_end_addr)

RECURSIVE ReadIdsMiddle(_, _, _)
ReadIdsMiddle(mem, page_idx, end_page_addr) ==
    IF page_idx >= end_page_addr THEN << >>
    ELSE read_page_transaction_ids(mem, page_idx, 0, PAGE_SIZE - 1)
            \o ReadIdsMiddle(mem, page_idx + 1, end_page_addr)

read_transaction_ids(mem, addr, size) ==
    LET start_addr == addr
        end_addr == addr + size - 1
        start_page_addr == Shr(start_addr, page_addr_shift)
        end_page_addr == Shr(end_addr, page_addr_shift)
        in_page_start_addr == BitAnd(start_addr, in_page_addr_mask)
        in_page_end_addr == BitAnd(end_addr, in_page_addr_mask)
    IN  IF start_page_addr = end_page_addr
        THEN read_page_transaction_ids(mem, start_page_addr,
                                       in_page_start_addr, in_page_end_addr)
        ELSE read_page_transaction_ids(mem, start_page_addr,
                                       in_page_start_addr, PAGE_SIZE - 1)
                \o ReadIdsMiddle(mem, start_page_addr + 1, end_page_addr)
                \o read_page_transaction_ids(mem, end_page_addr, 0, in_page_end_addr)

\* write_page_data allocating a new page even when the slot holds one
write_page_data_fresh_page(mem, idx, in_page_start_addr, data) ==
    LET page == PageNew(default_value)
        page_data == [i \in 0..(PAGE_SIZE - 1) |->
                        IF i >= in_page_start_addr /\ i < in_page_start_addr + Len(data)
                        THEN data[i - in_page_start_addr + 1]
                        ELSE page.data[i]]
    IN  [mem EXCEPT ![idx] = Some([page EXCEPT !.data = page_data])]

\* write_page_data allocating the following slot as well
write_page_data_allocates_next(mem, idx, in_page_start_addr, data) ==
    LET page == IF mem[idx] # None THEN mem[idx][1] ELSE PageNew(default_value)
        page_data == [i \in 0..(PAGE_SIZE - 1) |->
                        IF i >= in_page_start_addr /\ i < in_page_start_addr + Len(data)
                        THEN data[i - in_page_start_addr + 1]
                        ELSE page.data[i]]
        following == (idx + 1) % NUM_PAGES
    IN  [mem EXCEPT ![idx] = Some([page EXCEPT !.data = page_data]),
                    ![following] = IF idx # following /\ @ = None
                                   THEN Some(PageNew(default_value)) ELSE @]

\* write_page_data storing the bytes one cell further into the page
write_page_data_shifted(mem, idx, in_page_start_addr, data) ==
    LET page == IF mem[idx] # None THEN mem[idx][1] ELSE PageNew(default_value)
        page_data == [i \in 0..(PAGE_SIZE - 1) |->
                        IF i > in_page_start_addr /\ i <= in_page_start_addr + Len(data)
                        THEN data[i - in_page_start_addr]
                        ELSE page.data[i]]
    IN  [mem EXCEPT ![idx] = Some([page EXCEPT !.data = page_data])]

write_page_data(mem, idx, in_page_start_addr, data) ==
    LET page == IF mem[idx] # None THEN mem[idx][1] ELSE PageNew(default_value)
        page_data == [i \in 0..(PAGE_SIZE - 1) |->
                        IF i >= in_page_start_addr /\ i < in_page_start_addr + Len(data)
                        THEN data[i - in_page_start_addr + 1]
                        ELSE page.data[i]]
    IN  [mem EXCEPT ![idx] = Some([page EXCEPT !.data = page_data])]

write_page_transaction_ids(mem, idx, in_page_start_addr, ids) ==
    IF mem = Unreachable THEN Unreachable
    ELSE IF mem[idx] # None
    THEN LET page == mem[idx][1]
             page_transaction_ids ==
                [i \in 0..(PAGE_SIZE - 1) |->
                    IF i >= in_page_start_addr /\ i < in_page_start_addr + Len(ids)
                    THEN ids[i - in_page_start_addr + 1]
                    ELSE page.transaction_ids[i]]
         IN  [mem EXCEPT ![idx] = Some([page EXCEPT !.transaction_ids = page_transaction_ids])]
    ELSE Unreachable

RECURSIVE WriteMiddle(_, _, _, _, _)
WriteMiddle(mem, page_idx, end_page_addr, data, offset) ==
    IF page_idx >= end_page_addr
    THEN write_page_data(mem, end_page_addr, 0, Slice(data, offset, Len(data)))
    ELSE WriteMiddle(write_page_data(mem, page_idx, 0, Slice(data, offset, offset + PAGE_SIZE)),
                     page_idx + 1, end_page_addr, data, offset + PAGE_SIZE)

\* write_data taking the tail of a multi-page write from the start of the
\* buffer instead of from offset
write_data_tail_from_start(mem, addr, data) ==
    LET size == Len(data)
        end_addr == addr + size - 1
        start_page_addr == Shr(addr, page_addr_shift)
        end_page_addr == Shr(end_addr, page_addr_shift)
        in_page_start_addr == BitAnd(addr, in_page_addr_mask)
        in_page_end_addr == BitAnd(end_addr, in_page_addr_mask)
    IN  IF start_page_addr = end_page_addr
        THEN write_page_data(mem, start_page_addr, in_page_start_addr, data)
        ELSE write_page_data(
                WriteMiddle(
                    write_page_data(mem, start_page_addr, in_page_start_addr,
                                    Slice(data, 0, PAGE_SIZE - in_page_start_addr)),
                    start_page_addr + 1, end_page_addr, data,
                    PAGE_SIZE - in_page_start_addr),
                end_page_addr, 0, Slice(data, 0, in_page_end_addr + 1))

write_data(mem, addr, data) ==
    LET size == Len(data)
        start_addr == addr
        end_addr == addr + size - 1
        start_page_addr == Shr(start_addr, page_addr_shift)
        end_page_addr == Shr(end_addr, page_addr_shift)
        in_page_start_addr == BitAnd(start_addr, in_page_addr_mask)
    IN  IF start_page_addr = end_page_addr
        THEN write_page_data(mem, start_page_addr, in_page_start_addr, data)
        ELSE WriteMiddle(
                write_page_data(mem, start_page_addr, in_page_start_addr,
                                Slice(data, 0, PAGE_SIZE - in_page_start_addr)),
                start_page_addr + 1, end_page_addr, data,
                PAGE_SIZE - in_page_start_addr)

RECURSIVE WriteIdsMiddle(_, _, _, _, _)
WriteIdsMiddle(mem, page_idx, end_page_addr, ids, offset) ==
    IF page_idx >= end_page_addr
    THEN write_page_transaction_ids(mem, end_page_addr, 0, Slice(ids, offset, Len(ids)))
    ELSE WriteIdsMiddle(
            write_page_transaction_ids(mem, page_idx, 0,
                                       Slice(ids, offset, offset + PAGE_SIZE)),
            page_idx + 1, end_page_addr, ids, offset + PAGE_SIZE)

write_transaction_ids(mem, addr, ids) ==
    LET size == Len(ids)
        start_addr == addr
        end_addr == addr + size - 1
        start_page_addr == Shr(start_addr, page_addr_shift)
        end_page_addr == Shr(end_addr, page_addr_shift)
        in_page_start_addr == BitAnd(start_addr, in_page_addr_mask)
    IN  IF start_page_addr = end_page_addr
        THEN write_page_transaction_ids(mem, start_page_addr, in_page_start_addr, ids)
        ELSE WriteIdsMiddle(
                write_page_transaction_ids(mem, start_page_addr, in_page_start_addr,
                                           Slice(ids, 0, PAGE_SIZE - in_page_start_addr)),
                start_page_addr + 1, end_page_addr, ids,
                PAGE_SIZE - in_page_start_addr)

(***************************************************************************)
(* Transaction journal.  The operators take the fields of Memory as a      *)
(* record self and return the fields after the call together with the      *)
(* value returned ("Some"/"None" for Option<()>, "Ok"/"Err" for            *)
(* Result<(), ()>, "panic" when the call does not return, "unreachable"    *)
(* when it ends in the unreachable!() of write_page_transaction_ids).      *)
(***************************************************************************)
Transaction(addr, data, old_data, old_ids, code_location) ==
    [addr |-> addr, data |-> data, old_data |-> old_data,
     old_ids |-> old_ids, code_location |-> code_location]

\* #[derive(Default)]
TransactionDefault == Transaction(0, << >>, << >>, << >>, 0)

Return(self, result) ==
    [memory |-> self.memory, transactions |-> self.transactions,
     transaction_idx |-> self.transaction_idx, result |-> result]

\* std::mem::take(&mut transactions[i]) / std::mem::replace(&mut transactions[i], t)
Take(ts, i) == [ts EXCEPT ![i + 1] = TransactionDefault]
Replace(ts, i, t) == [ts EXCEPT ![i + 1] = t]

\* write_data / write_transaction_ids abort on assert!(size > 0) or on a page
\* index outside memory[..]
WritePanics(addr, size) == ReadPanics(addr, size)

\* next_transaction stamping the cursor itself instead of cursor + 1
next_transaction_stamps_cursor(self) ==
    IF self.transaction_idx >= Len(self.transactions)
    THEN Return(self, "None")
    ELSE LET id == NonZeroU32(self.transaction_idx)
             transaction == self.transactions[self.transaction_idx + 1]
             written == write_data(self.memory, transaction.addr, transaction.data)
             stamped == write_transaction_ids(written, transaction.addr,
                            Repeat(id, Len(transaction.data)))
         IN  Return([self EXCEPT !.memory = stamped,
                                 !.transaction_idx = self.transaction_idx + 1],
                    "Some")

\* next_transaction advancing the cursor even when no record is pending
next_transaction_past_tip(self) ==
    IF self.transaction_idx >= Len(self.transactions)
    THEN Return([self EXCEPT !.transaction_idx = self.transaction_idx + 1], "Some")
    ELSE LET id == NonZeroU32(self.transaction_idx + 1)
             transaction == self.transactions[self.transaction_idx + 1]
             written == write_data(self.memory, transaction.addr, transaction.data)
             stamped == write_transaction_ids(written, transaction.addr,
                            Repeat(id, Len(transaction.data)))
         IN  Return([self EXCEPT !.memory = stamped,
                                 !.transaction_idx = self.transaction_idx + 1],
                    "Some")

\* next_transaction writing the ids before the bytes
next_transaction_ids_first(self) ==
    IF self.transaction_idx >= Len(self.transactions)
    THEN Return(self, "None")
    ELSE LET id == NonZeroU32(self.transaction_idx + 1)
             transaction == self.transactions[self.transaction_idx + 1]
             taken == Take(self.transactions, self.transaction_idx)
             stamped == write_transaction_ids(self.memory, transaction.addr,
                            Repeat(id, Len(transaction.data)))
         IN  IF stamped = Unreachable
             THEN Return([self EXCEPT !.transactions = taken], "unreachable")
             ELSE Return([self EXCEPT
                            !.memory = write_data(stamped, transaction.addr,
                                                  transaction.data),
                            !.transaction_idx = self.transaction_idx + 1],
                         "Some")

\* next_transaction stamping the journal length instead of the cursor + 1
next_transaction_stamps_length(self) ==
    IF self.transaction_idx >= Len(self.transactions)
    THEN Return(self, "None")
    ELSE LET id == NonZeroU32(Len(self.transactions))
             transaction == self.transactions[self.transaction_idx + 1]
             taken == Take(self.transactions, self.transaction_idx)
         IN  IF WritePanics(transaction.addr, Len(transaction.data))
             THEN Return([self EXCEPT !.transactions = taken], "panic")
             ELSE LET written == write_data(self.memory, transaction.addr, transaction.data)
                      stamped == write_transaction_ids(written, transaction.addr,
                                    Repeat(id, Len(transaction.data)))
                  IN  IF stamped = Unreachable
                      THEN Return([self EXCEPT !.memory = written,
                                               !.transactions = taken], "unreachable")
                      ELSE Return([self EXCEPT
                                    !.memory = stamped,
                                    !.transactions =
                                        Replace(taken, self.transaction_idx, transaction),
                                    !.transaction_idx = self.transaction_idx + 1],
                                  "Some")

next_transaction(self) ==
    IF self.transaction_idx >= Len(self.transactions)
    THEN Return(self, "None")
    ELSE LET id == NonZeroU32(self.transaction_idx + 1)
             transaction == self.transactions[self.transaction_idx + 1]
             taken == Take(self.transactions, self.transaction_idx)
         IN  IF WritePanics(transaction.addr, Len(transaction.data))
             THEN Return([self EXCEPT !.transactions = taken], "panic")
             ELSE LET written == write_data(self.memory, transaction.addr, transaction.data)
                      stamped == write_transaction_ids(written, transaction.addr,
                                    Repeat(id, Len(transaction.data)))
                  IN  IF stamped = Unreachable
                      THEN Return([self EXCEPT !.memory = written,
                                               !.transactions = taken], "unreachable")
                      ELSE Return([self EXCEPT
                                    !.memory = stamped,
                                    !.transactions =
                                        Replace(taken, self.transaction_idx, transaction),
                                    !.transaction_idx = self.transaction_idx + 1],
                                  "Some")

\* Variants of previous_transaction with one of its three effects left out
\* (restoring the bytes, restoring the ids, putting the record back).
previous_transaction_variant(self, restore_data, restore_ids, put_back) ==
    IF self.transaction_idx = 0
    THEN Return(self, "None")
    ELSE LET transaction == self.transactions[self.transaction_idx]
             taken == Take(self.transactions, self.transaction_idx - 1)
         IN  IF WritePanics(transaction.addr, Len(transaction.old_data))
             THEN Return([self EXCEPT !.transactions = taken], "panic")
             ELSE LET written == write_data(self.memory, transaction.addr,
                                    IF restore_data THEN transaction.old_data
                                    ELSE transaction.data)
                      stamped == IF restore_ids
                                 THEN write_transaction_ids(written, transaction.addr,
                                                            transaction.old_ids)
                                 ELSE written
                  IN  Return([self EXCEPT
                                !.memory = stamped,
                                !.transactions =
                                    IF put_back
                                    THEN Replace(taken, self.transaction_idx - 1, transaction)
                                    ELSE taken,
                                !.transaction_idx = self.transaction_idx - 1],
                             "Some")

previous_transaction_no_replace(self) ==
    previous_transaction_variant(self, TRUE, TRUE, FALSE)
previous_transaction_keeps_ids(self) ==
    previous_transaction_variant(self, TRUE, FALSE, TRUE)
previous_transaction_keeps_data(self) ==
    previous_transaction_variant(self, FALSE, TRUE, TRUE)
\* previous_transaction refusing to revert the first record
previous_transaction_fails_at_one(self) ==
    IF self.transaction_idx <= 1
    THEN Return(self, "None")
    ELSE previous_transaction_variant(self, TRUE, TRUE, TRUE)

\* previous_transaction leaving the cursor where it was
previous_transaction_keeps_cursor(self) ==
    [previous_transaction_variant(self, TRUE, TRUE, TRUE)
        EXCEPT !.transaction_idx = self.transaction_idx]

\* previous_transaction writing the record's data instead of its old_data
previous_transaction_writes_data(self) ==
    LET r == previous_transaction_variant(self, TRUE, TRUE, TRUE)
        transaction == self.transactions[self.transaction_idx]
    IN  IF r.result = "Some"
        THEN [r EXCEPT !.memory =
                write_transaction_ids(
                    write_data(self.memory, transaction.addr, transaction.data),
                    transaction.addr, transaction.old_ids)]
        ELSE r

\* previous_transaction putting the record back with data and old_data
\* exchanged
previous_transaction_swaps_data(self) ==
    LET r == previous_transaction_variant(self, TRUE, TRUE, TRUE)
        transaction == self.transactions[self.transaction_idx]
    IN  IF r.result = "Some"
        THEN [r EXCEPT !.transactions[self.transaction_idx] =
                [transaction EXCEPT !.data = transaction.old_data,
                                    !.old_data = transaction.data]]
        ELSE r

\* previous_transaction giving the pages back once nothing is applied
previous_transaction_frees_pages(self) ==
    LET r == previous_transaction_variant(self, TRUE, TRUE, TRUE)
    IN  IF r.result = "Some" /\ r.transaction_idx = 0
        THEN [r EXCEPT !.memory = MemoryNew]
        ELSE r

previous_transaction(self) ==
    IF self.transaction_idx = 0
    THEN Return(self, "None")
    ELSE IF self.transaction_idx - 1 >= Len(self.transactions)
    THEN Return(self, "None")
    ELSE LET transaction == self.transactions[self.transaction_idx]
             taken == Take(self.transactions, self.transaction_idx - 1)
         IN  IF WritePanics(transaction.addr, Len(transaction.old_data))
             THEN Return([self EXCEPT !.transactions = taken], "panic")
             ELSE LET written == write_data(self.memory, transaction.addr,
                                            transaction.old_data)
                      stamped == write_transaction_ids(written, transaction.addr,
                                                       transaction.old_ids)
                  IN  IF stamped = Unreachable
                      THEN Return([self EXCEPT !.memory = written,
                                               !.transactions = taken], "unreachable")
                      ELSE Return([self EXCEPT
                                    !.memory = stamped,
                                    !.transactions =
                                        Replace(taken, self.transaction_idx - 1, transaction),
                                    !.transaction_idx = self.transaction_idx - 1],
                                  "Some")

\* add_transaction without the check that the cursor is at the tip
add_transaction_no_tip_check(self, addr, data, code_location) ==
    IF ReadPanics(addr, Len(data))
    THEN Return(self, "panic")
    ELSE LET old_data == read(self.memory, addr, Len(data))
             old_ids == read_transaction_ids(self.memory, addr, Len(data))
             transaction == Transaction(addr, data, old_data, old_ids, code_location)
             pushed == [self EXCEPT !.transactions = Append(@, transaction)]
             applied == next_transaction(pushed)
         IN  IF applied.result = "Some"
             THEN Return(applied, "Ok")
             ELSE Return(applied, "panic")

\* add_transaction pushing the record before it checks the cursor
add_transaction_push_first(self, addr, data, code_location) ==
    IF ReadPanics(addr, Len(data))
    THEN Return(self, "panic")
    ELSE LET old_data == read(self.memory, addr, Len(data))
             old_ids == read_transaction_ids(self.memory, addr, Len(data))
             transaction == Transaction(addr, data, old_data, old_ids, code_location)
             pushed == [self EXCEPT !.transactions = Append(@, transaction)]
             applied == next_transaction(pushed)
         IN  IF Len(self.transactions) # self.transaction_idx
             THEN Return(pushed, "Err")
             ELSE IF applied.result = "Some"
             THEN Return(applied, "Ok")
             ELSE Return(applied, "panic")

\* add_transaction pushing the record without applying it
add_transaction_no_apply(self, addr, data, code_location) ==
    IF Len(self.transactions) # self.transaction_idx
    THEN Return(self, "Err")
    ELSE IF ReadPanics(addr, Len(data))
    THEN Return(self, "panic")
    ELSE LET old_data == read(self.memory, addr, Len(data))
             old_ids == read_transaction_ids(self.memory, addr, Len(data))
             transaction == Transaction(addr, data, old_data, old_ids, code_location)
             pushed == [self EXCEPT !.transactions = Append(@, transaction)]
         IN  Return(pushed, "Ok")

\* add_transaction taking old_data and old_ids after the write
add_transaction_snapshot_after(self, addr, data, code_location) ==
    IF Len(self.transactions) # self.transaction_idx
    THEN Return(self, "Err")
    ELSE IF ReadPanics(addr, Len(data))
    THEN Return(self, "panic")
    ELSE LET transaction == Transaction(addr, data, << >>, << >>, code_location)
             pushed == [self EXCEPT !.transactions = Append(@, transaction)]
             applied == next_transaction(pushed)
             old_data == read(applied.memory, addr, Len(data))
             old_ids == read_transaction_ids(applied.memory, addr, Len(data))
         IN  IF applied.result = "Some"
             THEN Return([applied EXCEPT
                            !.transactions[Len(applied.transactions)] =
                                Transaction(addr, data, old_data, old_ids,
                                            code_location)],
                         "Ok")
             ELSE Return(applied, "panic")

add_transaction(self, addr, data, code_location) ==
    IF Len(self.transactions) # self.transaction_idx
    THEN Return(self, "Err")
    ELSE IF ReadPanics(addr, Len(data))
    THEN Return(self, "panic")
    ELSE LET old_data == read(self.memory, addr, Len(data))
             old_ids == read_transaction_ids(self.memory, addr, Len(data))
             transaction == Transaction(addr, data, old_data, old_ids, code_location)
             pushed == [self EXCEPT !.transactions = Append(@, transaction)]
             applied == next_transaction(pushed)
         IN  \* debug_assert!(result.is_some())
             IF applied.result = "Some"
             THEN Return(applied, "Ok")
             ELSE IF applied.result = "unreachable"
             THEN Return(applied, "unreachable")
             ELSE Return(applied, "panic")

current_transaction_id(self) == self.transaction_idx

\* move_to_transaction: steps towards target_id until the cursor equals it
RECURSIVE MoveLoop(_, _)
MoveLoop(self, target_id) ==
    IF self.transaction_idx = target_id
    THEN Return(self, "Ok")
    ELSE LET stepped == IF self.transaction_idx > target_id
                        THEN previous_transaction(self)
                        ELSE next_transaction(self)
         IN  IF stepped.result = "Some"
             THEN MoveLoop(stepped, target_id)
             ELSE IF stepped.result = "unreachable"
             THEN Return(stepped, "unreachable")
             ELSE Return(stepped, "panic")

\* move_to_transaction accepting the journal length as a target
move_to_transaction_allows_tip(self, target_id) ==
    IF target_id > Len(self.transactions)
    THEN Return(self, "Err")
    ELSE MoveLoop(self, target_id)

move_to_transaction(self, target_id) ==
    IF target_id >= Len(self.transactions)
    THEN Return(self, "Err")
    ELSE MoveLoop(self, target_id)

(***************************************************************************)
(* PagedMemory (internal_memory_ops/paged_memory.rs): the same page store  *)
(* behind the Memory trait.  Its read asserts that the span ends below the *)
(* end of the address space; the rest of the bodies of read and            *)
(* read_transaction_ids is that of Memory::read and                        *)
(* Memory::read_transaction_ids.  A read returns [panics, value].          *)
(***************************************************************************)
Returned(value) == [panics |-> FALSE, value |-> value]
Panicked == [panics |-> TRUE, value |-> << >>]

Memory_read(mem, addr, size) ==
    IF ReadPanics(addr, size) THEN Panicked ELSE Returned(read(mem, addr, size))

Memory_read_transaction_ids(mem, addr, size) ==
    IF ReadPanics(addr, size)
    THEN Panicked
    ELSE Returned(read_transaction_ids(mem, addr, size))

PagedMemory_read(mem, addr, size) ==
    IF ~(size > 0) THEN Panicked
    ELSE IF ~(addr + size < PAGE_SIZE * NUM_PAGES) THEN Panicked
    ELSE Returned(read(mem, addr, size))

PagedMemory_read_transaction_ids(mem, addr, size) ==
    IF ~(size > 0) THEN Panicked
    ELSE IF Shr(addr + size - 1, page_addr_shift) >= NUM_PAGES THEN Panicked
    ELSE Returned(read_transaction_ids(mem, addr, size))

(***************************************************************************)
(* NaiveMemory: the dense engine, one cell per address.                    *)
(***************************************************************************)
SIZE == NUM_PAGES * PAGE_SIZE

NaiveMemoryNew ==
    [data |-> [a \in 0..(SIZE - 1) |-> default_value],
     transaction_ids |-> [a \in 0..(SIZE - 1) |-> 0],
     transactions |-> << >>,
     transaction_idx |-> 0]

\* self.data[addr..addr + size]: the slice panics when it ends past SIZE
NaiveReadPanics(addr, size) == size = 0 \/ addr + size > SIZE
\* self.data[addr..]: the slice panics when it starts past SIZE
NaiveWritePanics(addr) == addr > SIZE

NaiveMemory_read(self, addr, size) ==
    [i \in 1..size |-> self.data[addr + i - 1]]

NaiveMemory_read_transaction_ids(self, addr, size) ==
    [i \in 1..size |-> self.transaction_ids[addr + i - 1]]

\* NaiveMemory::write_data storing all but the last byte
NaiveMemory_write_data_one_short(self, addr, data) ==
    [self EXCEPT !.data =
        [a \in 0..(SIZE - 1) |->
            IF a >= addr /\ a - addr < Len(data) - 1
            THEN data[a - addr + 1]
            ELSE self.data[a]]]

\* zip stops at the shorter of data[addr..] and data
NaiveMemory_write_data(self, addr, data) ==
    [self EXCEPT !.data =
        [a \in 0..(SIZE - 1) |->
            IF a >= addr /\ a - addr < Len(data)
            THEN data[a - addr + 1]
            ELSE self.data[a]]]

NaiveMemory_write_transaction_ids(self, addr, transaction_ids) ==
    [self EXCEPT !.transaction_ids =
        [a \in 0..(SIZE - 1) |->
            IF a >= addr /\ a - addr < Len(transaction_ids)
            THEN transaction_ids[a - addr + 1]
            ELSE self.transaction_ids[a]]]

NaiveReturn(self, result) ==
    [data |-> self.data, transaction_ids |-> self.transaction_ids,
     transactions |-> self.transactions,
     transaction_idx |-> self.transaction_idx, result |-> result]

NaiveMemory_next_transaction(self) ==
    IF self.transaction_idx >= Len(self.transactions)
    THEN NaiveReturn(self, "None")
    ELSE LET id == NonZeroU32(self.transaction_idx + 1)
             transaction == self.transactions[self.transaction_idx + 1]
             taken == Take(self.transactions, self.transaction_idx)
         IN  IF NaiveWritePanics(transaction.addr)
             THEN NaiveReturn([self EXCEPT !.transactions = taken], "panic")
             ELSE LET written == NaiveMemory_write_data(self, transaction.addr,
                                                        transaction.data)
                      stamped == NaiveMemory_write_transaction_ids(
                                    written, transaction.addr,
                                    Repeat(id, Len(transaction.data)))
                  IN  NaiveReturn([stamped EXCEPT
                                    !.transactions =
                                        Replace(taken, self.transaction_idx, transaction),
                                    !.transaction_idx = self.transaction_idx + 1],
                                  "Some")

\* Line 375 puts the record back at index transaction_idx, not at
\* transaction_idx - 1: with the cursor at the journal tip the index is out of
\* bounds and the call panics after the bytes and ids were restored; with
\* pending records the record at the cursor is overwritten and the slot
\* below it keeps the default record left by std::mem::take.
NaiveMemory_previous_transaction(self) ==
    IF self.transaction_idx = 0
    THEN NaiveReturn(self, "None")
    ELSE IF self.transaction_idx - 1 >= Len(self.transactions)
    THEN NaiveReturn(self, "None")
    ELSE LET transaction == self.transactions[self.transaction_idx]
             taken == Take(self.transactions, self.transaction_idx - 1)
         IN  IF NaiveWritePanics(transaction.addr)
             THEN NaiveReturn([self EXCEPT !.transactions = taken], "panic")
             ELSE LET written == NaiveMemory_write_data(self, transaction.addr,
                                                        transaction.old_data)
                      restored == NaiveMemory_write_transaction_ids(
                                    written, transaction.addr, transaction.old_ids)
                  IN  IF self.transaction_idx >= Len(self.transactions)
                      THEN NaiveReturn([restored EXCEPT !.transactions = taken],
                                       "panic")
                      ELSE NaiveReturn([restored EXCEPT
                                    !.transactions =
                                        Replace(taken, self.transaction_idx, transaction),
                                    !.transaction_idx = self.transaction_idx - 1],
                                  "Some")

NaiveMemory_add_transaction(self, addr, data, code_location) ==
    IF Len(self.transactions) # self.transaction_idx
    THEN NaiveReturn(self, "Err")
    ELSE IF NaiveReadPanics(addr, Len(data))
    THEN NaiveReturn(self, "panic")
    ELSE LET old_data == NaiveMemory_read(self, addr, Len(data))
             old_ids == NaiveMemory_read_transaction_ids(self, addr, Len(data))
             transaction == Transaction(addr, data, old_data, old_ids, code_location)
             pushed == [self EXCEPT !.transactions = Append(@, transaction)]
             applied == NaiveMemory_next_transaction(pushed)
         IN  IF applied.result = "Some"
             THEN NaiveReturn(applied, "Ok")
             ELSE NaiveReturn(applied, "panic")

(***************************************************************************)
(* What a caller can observe of the store: the byte and the transaction id *)
(* at every address of the address space.                                  *)
(***************************************************************************)
ByteAt(mem, a) == read(mem, a, 1)[1]
IdAt(mem, a) == read_transaction_ids(mem, a, 1)[1]
View(mem) == [a \in 0..(SPACE - 1) |-> <<ByteAt(mem, a), IdAt(mem, a)>>]
NoView == << >>

(***************************************************************************)
(* The state machine.  memory, transactions and transaction_idx are the    *)
(* fields of Memory.  The other variables observe the run:                 *)
(*   last     the last call, the value it returned, and whether the call   *)
(*            before it was an accepted add_transaction;                   *)
(*   call     the arguments of the last call: of every call under          *)
(*            SpecCall, of accepted add_transaction calls under Spec, of   *)
(*            those and of move_to_transaction calls under SpecMove, of    *)
(*            writes and reads under the other specifications;             *)
(*   seen     for each cursor value, the view the store had when the       *)
(*            cursor first took that value (NoView while it never has);    *)
(*   pre      the view just before the last accepted add_transaction;      *)
(*   returned the bytes or ids the last read returned (under SpecStamp the *)
(*            id the last next_transaction stamped, under SpecNaive the    *)
(*            results of the last call on Memory and on NaiveMemory);      *)
(*   naive    the dense NaiveMemory the fuzz target runs next to the       *)
(*            paged store.                                                 *)
(***************************************************************************)
Self == [memory |-> memory, transactions |-> transactions,
         transaction_idx |-> transaction_idx]

NoCall == [addr |-> 0, data |-> << >>, code_location |-> 0, target_id |-> 0,
           size |-> 0]
AddCall(addr, data, code_location) ==
    [NoCall EXCEPT !.addr = addr, !.data = data, !.code_location = code_location]
MoveCall(target_id) == [NoCall EXCEPT !.target_id = target_id]
ReadCall(addr, size) == [NoCall EXCEPT !.addr = addr, !.size = size]
NoValue == << >>

Init ==
    /\ memory = MemoryNew
    /\ transactions = << >>
    /\ transaction_idx = 0
    /\ last = [op |-> "new", res |-> "Ok", follows_add |-> FALSE]
    /\ call = NoCall
    /\ seen = [c \in 0..MaxTransactions |->
                 IF c = 0 THEN View(MemoryNew) ELSE NoView]
    /\ pre = NoView
    /\ returned = NoValue
    /\ naive = NaiveMemoryNew

Running == last.res \notin {"panic", "unreachable"}
Succeeded(l) == l.res \in {"Ok", "Some"}
Failed(l) == l.res \in {"Err", "None"}
Accepted(l) == l.op = "add_transaction" /\ l.res = "Ok"

\* The call op returns r: the fields take the values the call leaves.
Call(r, op) ==
    /\ Running
    /\ memory' = r.memory
    /\ transactions' = r.transactions
    /\ transaction_idx' = r.transaction_idx
    /\ last' = [op |-> op, res |-> r.result, follows_add |-> Accepted(last)]
    /\ seen' = IF /\ r.result \in {"Some", "Ok"}
                  /\ r.transaction_idx <= MaxTransactions
                  /\ seen[r.transaction_idx] = NoView
               THEN [seen EXCEPT ![r.transaction_idx] = View(r.memory)]
               ELSE seen
    /\ pre' = IF op = "add_transaction" /\ r.result = "Ok" THEN View(memory) ELSE pre

\* (\E r \in {e} : ... binds r to the value of e, computed once.)
\* The journal is capped: a call that would make it longer than
\* MaxTransactions is not made.
AddTransaction(addr, data, code_location) ==
    \E r \in {add_transaction(Self, addr, data, code_location)} :
        /\ Len(r.transactions) <= MaxTransactions
        /\ Call(r, "add_transaction")

NextTransaction ==
    /\ \E r \in {next_transaction(Self)} : Call(r, "next_transaction")
    /\ call' = NoCall
    /\ returned' = NoValue
    /\ UNCHANGED naive

PreviousTransaction ==
    /\ \E r \in {previous_transaction(Self)} : Call(r, "previous_transaction")
    /\ call' = NoCall
    /\ returned' = NoValue
    /\ UNCHANGED naive

MoveToTransaction(target_id) ==
    \E r \in {move_to_transaction(Self, target_id)} : Call(r, "move_to_transaction")

TargetIds == 0..(MaxTransactions + 1)

AddStep ==
    \E addr \in Addrs, data \in Payloads, code_location \in CodeLocations :
        /\ AddTransaction(addr, data, code_location)
        /\ call' = IF Accepted(last')
                   THEN AddCall(addr, data, code_location) ELSE NoCall
        /\ returned' = NoValue
        /\ UNCHANGED naive

MoveStep ==
    \E target_id \in TargetIds :
        /\ MoveToTransaction(target_id)
        /\ call' = NoCall
        /\ returned' = NoValue
        /\ UNCHANGED naive

Next ==
    \/ AddStep
    \/ NextTransaction
    \/ PreviousTransaction
    \/ MoveStep

Spec == Init /\ [][Next]_vars

\* The same machine, with the arguments of every call recorded in call.
AddStepCall ==
    \E addr \in Addrs, data \in Payloads, code_location \in CodeLocations :
        /\ AddTransaction(addr, data, code_location)
        /\ call' = AddCall(addr, data, code_location)
        /\ returned' = NoValue
        /\ UNCHANGED naive

MoveStepCall ==
    \E target_id \in TargetIds :
        /\ MoveToTransaction(target_id)
        /\ call' = MoveCall(target_id)
        /\ returned' = NoValue
        /\ UNCHANGED naive

NextCall ==
    \/ AddStepCall
    \/ NextTransaction
    \/ PreviousTransaction
    \/ MoveStepCall

SpecCall == Init /\ [][NextCall]_vars

\* The same machine as Spec, with the target of every move_to_transaction
\* recorded in call.
NextMove ==
    \/ AddStep
    \/ NextTransaction
    \/ PreviousTransaction
    \/ MoveStepCall

SpecMove == Init /\ [][NextMove]_vars

\* A read that allocates the empty slots it passes over
ReadReturns_allocating(r, op, addr, size) ==
    /\ Running
    /\ last' = [op |-> op, res |-> IF r.panics THEN "panic" ELSE "Ok",
                follows_add |-> FALSE]
    /\ call' = ReadCall(addr, size)
    /\ returned' = r.value
    /\ memory' = [idx \in 0..(NUM_PAGES - 1) |->
                    IF /\ memory[idx] = None
                       /\ \E a \in addr..(addr + size - 1) : a \div PAGE_SIZE = idx
                    THEN Some(PageNew(default_value))
                    ELSE memory[idx]]
    /\ UNCHANGED <<transactions, transaction_idx, seen, pre, naive>>

\* Reads.  A read changes no field; the step records what it returned.
ReadReturns(r, op, addr, size) ==
    /\ Running
    /\ last' = [op |-> op, res |-> IF r.panics THEN "panic" ELSE "Ok",
                follows_add |-> FALSE]
    /\ call' = ReadCall(addr, size)
    /\ returned' = r.value
    /\ UNCHANGED <<memory, transactions, transaction_idx, seen, pre, naive>>

Read(addr, size) ==
    \E r \in {Memory_read(memory, addr, size)} :
        ReadReturns(r, "Memory::read", addr, size)

ReadTransactionIds(addr, size) ==
    \E r \in {Memory_read_transaction_ids(memory, addr, size)} :
        ReadReturns(r, "Memory::read_transaction_ids", addr, size)

PagedRead(addr, size) ==
    \E r \in {PagedMemory_read(memory, addr, size)} :
        ReadReturns(r, "PagedMemory::read", addr, size)

PagedReadTransactionIds(addr, size) ==
    \E r \in {PagedMemory_read_transaction_ids(memory, addr, size)} :
        ReadReturns(r, "PagedMemory::read_transaction_ids", addr, size)

ByteReads == {"Memory::read", "PagedMemory::read"}
IdReads == {"Memory::read_transaction_ids", "PagedMemory::read_transaction_ids"}

\* Reads of a freshly constructed memory, at every address and size up to
\* the size of the address space.
FreshAddrs == 0..SPACE
FreshSizes == 0..SPACE

FreshRead == \E addr \in FreshAddrs, size \in FreshSizes : Read(addr, size)
FreshReadTransactionIds ==
    \E addr \in FreshAddrs, size \in FreshSizes : ReadTransactionIds(addr, size)
FreshPagedRead ==
    \E addr \in FreshAddrs, size \in FreshSizes : PagedRead(addr, size)
FreshPagedReadTransactionIds ==
    \E addr \in FreshAddrs, size \in FreshSizes : PagedReadTransactionIds(addr, size)

NextFresh ==
    \/ FreshRead
    \/ FreshReadTransactionIds
    \/ FreshPagedRead
    \/ FreshPagedReadTransactionIds

SpecFresh == Init /\ [][NextFresh]_vars

\* The fuzz target: every write that is not skipped is added to the paged and
\* to the naive memory, and both must accept it; every read that is not
\* skipped is made on both, and the results must be equal.
FuzzWrite(addr, data) ==
    /\ Running
    /\ Len(transactions) < MaxTransactions
    /\ ~(addr + Len(data) >= SPACE)
    /\ ~(data = << >>)
    /\ \E r \in {add_transaction(Self, addr, data, 0)} :
       \E n \in {IF r.result = "Ok"
                 THEN NaiveMemory_add_transaction(naive, addr, data, 0)
                 ELSE NaiveReturn(naive, "not called")} :
        /\ memory' = r.memory
        /\ transactions' = r.transactions
        /\ transaction_idx' = r.transaction_idx
        /\ naive' = [data |-> n.data, transaction_ids |-> n.transaction_ids,
                     transactions |-> n.transactions,
                     transaction_idx |-> n.transaction_idx]
        /\ last' = [op |-> "fuzz_target: write",
                    res |-> IF r.result = "Ok" /\ n.result = "Ok"
                            THEN "Ok" ELSE "panic",
                    follows_add |-> FALSE]
    /\ call' = AddCall(addr, data, 0)
    /\ returned' = NoValue
    /\ UNCHANGED <<seen, pre>>

FuzzRead(addr, size) ==
    /\ Running
    /\ ~(addr + size >= SPACE)
    /\ ~(size = 0)
    /\ \E p \in {PagedMemory_read(memory, addr, size)} :
        /\ returned' = p.value
        /\ last' = [op |-> "fuzz_target: read",
                    res |-> IF /\ ~p.panics
                               /\ ~NaiveReadPanics(addr, size)
                               /\ p.value = NaiveMemory_read(naive, addr, size)
                            THEN "Ok" ELSE "panic",
                    follows_add |-> FALSE]
    /\ call' = ReadCall(addr, size)
    /\ UNCHANGED <<memory, transactions, transaction_idx, seen, pre, naive>>

FuzzReadAddrs == {0, 1, PAGE_SIZE - 1, SPACE - PAGE_SIZE}
FuzzReadSizes == {1, 2, PAGE_SIZE + 1, 2 * PAGE_SIZE + 2, SPACE - 1}

FuzzWrites == \E addr \in Addrs, data \in Payloads : FuzzWrite(addr, data)
FuzzReads == \E addr \in FuzzReadAddrs, size \in FuzzReadSizes : FuzzRead(addr, size)

NextFuzz ==
    \/ FuzzWrites
    \/ FuzzReads

SpecFuzz == Init /\ [][NextFuzz]_vars

\* Reads of PagedMemory in the states that writes and undos lead to.  The
\* writes are those of the tests (inside a page, across a page border, over
\* four pages, into the last page); the spans read lie in one page, cross a
\* page border, cover whole pages between a head and a tail, and end at the
\* last byte of the address space.
StoreWrites == {<<1, <<0, 1, 2, 3, 4>> >>,
                <<PAGE_SIZE - 1, <<4, 3, 2, 1>> >>,
                <<PAGE_SIZE - 1, <<5, 6, 7, 8, 10, 11, 12, 13, 14, 15>> >>,
                <<SPACE - PAGE_SIZE, <<9>> >>}
ReadSpans == {<<1, 2>>, <<PAGE_SIZE - 1, 2>>, <<2, PAGE_SIZE + 1>>,
              <<1, 2 * PAGE_SIZE + 2>>, <<SPACE - PAGE_SIZE, PAGE_SIZE>>,
              <<0, SPACE>>, <<SPACE - 1, 1>>}

StoreWrite ==
    \E w \in StoreWrites :
        /\ AddTransaction(w[1], w[2], 0)
        /\ call' = AddCall(w[1], w[2], 0)
        /\ returned' = NoValue
        /\ UNCHANGED naive

StoreRead == \E s \in ReadSpans : PagedRead(s[1], s[2])
StoreReadTransactionIds == \E s \in ReadSpans : PagedReadTransactionIds(s[1], s[2])
StoreMemoryRead == \E s \in ReadSpans : Read(s[1], s[2])
StoreMemoryReadTransactionIds == \E s \in ReadSpans : ReadTransactionIds(s[1], s[2])

CurrentTransactionId ==
    /\ Running
    /\ last' = [op |-> "current_transaction_id", res |-> "Ok", follows_add |-> FALSE]
    /\ call' = NoCall
    /\ returned' = <<current_transaction_id(Self)>>
    /\ UNCHANGED <<memory, transactions, transaction_idx, seen, pre, naive>>

NextRead ==
    \/ StoreWrite
    \/ PreviousTransaction
    \/ StoreRead
    \/ StoreReadTransactionIds
    \/ StoreMemoryRead
    \/ StoreMemoryReadTransactionIds
    \/ CurrentTransactionId

SpecRead == Init /\ [][NextRead]_vars

\* The page store written directly, as the tests of the store do: bytes with
\* write_data, ids with write_transaction_ids.  pre is the view before the
\* write.
WriteData(addr, data) ==
    /\ Running
    /\ \E w \in {IF WritePanics(addr, Len(data))
                 THEN Unreachable
                 ELSE write_data(memory, addr, data)} :
        /\ memory' = IF w = Unreachable THEN memory ELSE w
        /\ last' = [op |-> "write_data",
                    res |-> IF w = Unreachable THEN "panic" ELSE "Ok",
                    follows_add |-> FALSE]
    /\ call' = AddCall(addr, data, 0)
    /\ pre' = View(memory)
    /\ returned' = NoValue
    /\ UNCHANGED <<transactions, transaction_idx, seen, naive>>

WriteTransactionIds(addr, transaction_ids) ==
    /\ Running
    /\ \E w \in {IF WritePanics(addr, Len(transaction_ids))
                 THEN Unreachable
                 ELSE write_transaction_ids(memory, addr, transaction_ids)} :
        /\ memory' = IF w = Unreachable THEN memory ELSE w
        /\ last' = [op |-> "write_transaction_ids",
                    res |-> IF w = Unreachable THEN "unreachable" ELSE "Ok",
                    follows_add |-> FALSE]
    /\ call' = AddCall(addr, transaction_ids, 0)
    /\ pre' = View(memory)
    /\ returned' = NoValue
    /\ UNCHANGED <<transactions, transaction_idx, seen, naive>>

StoreIds == {<<PAGE_SIZE - 1, <<1, 1>> >>, <<1, <<2, 2, 2, 2, 2, 2>> >>}

StoreWriteData == \E w \in StoreWrites : WriteData(w[1], w[2])
StoreWriteTransactionIds == \E w \in StoreIds : WriteTransactionIds(w[1], w[2])

NextWrite ==
    \/ StoreWriteData
    \/ StoreWriteTransactionIds

SpecWrite == Init /\ [][NextWrite]_vars

(***************************************************************************)
(* The id next_transaction stamps, for cursors up to and past 2^32.  A     *)
(* usize that large is held as two base-2^16 digits <<hi, lo>>, its value  *)
(* being hi * 2^16 + lo; a u32 is such a pair with hi < 2^16, and the      *)
(* Option<NonZeroU32> None is <<0, 0>>.  The stamped id depends on the     *)
(* cursor alone, so in SpecStamp transaction_idx is such a pair, the       *)
(* journal is taken to hold a record at the cursor, and each step is the   *)
(* id computation and the cursor advance of one next_transaction.          *)
(***************************************************************************)
Wide(n) == <<n \div HALF_U32, n % HALF_U32>>

\* k + 1 on usize (no overflow below 2^64)
usize_add_one(k) ==
    IF k[2] + 1 = HALF_U32 THEN <<k[1] + 1, 0>> ELSE <<k[1], k[2] + 1>>

\* k as u32: the low 32 bits
as_u32(k) == <<k[1] % HALF_U32, k[2]>>

\* NonZeroU32::new(n): None when n is 0
NonZeroU32_new(n) == IF n[1] = 0 /\ n[2] = 0 THEN Wide(0) ELSE n

\* the id of line 232: NonZeroU32::new((self.transaction_idx + 1) as u32)
stamped_id(idx) == NonZeroU32_new(as_u32(usize_add_one(idx)))

\* Cursors the runs start from, and the window of cursors around each carry
\* of the low digit in which next_transaction is stepped.
StampWindow == 24
StampHighs == {0, 1, 255, HALF_U32 - 2, HALF_U32 - 1}
StampStarts ==
    {<<hi, lo>> : hi \in StampHighs, lo \in {0, HALF_U32 - StampWindow}}
InStampWindow(k) == k[2] < StampWindow \/ k[2] >= HALF_U32 - StampWindow

InitStamp ==
    /\ memory = MemoryNew
    /\ transactions = << >>
    /\ transaction_idx \in StampStarts
    /\ last = [op |-> "new", res |-> "Ok", follows_add |-> FALSE]
    /\ call = NoCall
    /\ seen = [c \in 0..MaxTransactions |->
                 IF c = 0 THEN View(MemoryNew) ELSE NoView]
    /\ pre = NoView
    /\ returned = NoValue
    /\ naive = NaiveMemoryNew

StampNextTransaction ==
    /\ Running
    /\ InStampWindow(transaction_idx)
    /\ last' = [op |-> "next_transaction", res |-> "Some", follows_add |-> FALSE]
    /\ returned' = stamped_id(transaction_idx)
    /\ transaction_idx' = usize_add_one(transaction_idx)
    /\ call' = NoCall
    /\ UNCHANGED <<memory, transactions, seen, pre, naive>>

NextStamp == StampNextTransaction

SpecStamp == InitStamp /\ [][NextStamp]_vars

(***************************************************************************)
(* Memory and NaiveMemory stepped together: every call is made on both,    *)
(* with the same arguments.  returned holds the two results, Memory's      *)
(* first; a panic of either store ends the run.                            *)
(***************************************************************************)
Both(r, n, op) ==
    /\ Len(returned) = 2 => returned[2] # "panic"
    /\ Call(r, op)
    /\ naive' = [data |-> n.data, transaction_ids |-> n.transaction_ids,
                 transactions |-> n.transactions,
                 transaction_idx |-> n.transaction_idx]
    /\ returned' = <<r.result, n.result>>

BothAddTransaction ==
    \E w \in Addrs \X Payloads :
    \E r \in {add_transaction(Self, w[1], w[2], 0)} :
    \E n \in {NaiveMemory_add_transaction(naive, w[1], w[2], 0)} :
        /\ Len(r.transactions) <= MaxTransactions
        /\ Both(r, n, "add_transaction")
        /\ call' = AddCall(w[1], w[2], 0)

BothPreviousTransaction ==
    \E r \in {previous_transaction(Self)} :
    \E n \in {NaiveMemory_previous_transaction(naive)} :
        /\ Both(r, n, "previous_transaction")
        /\ call' = NoCall

BothNextTransaction ==
    \E r \in {next_transaction(Self)} :
    \E n \in {NaiveMemory_next_transaction(naive)} :
        /\ Both(r, n, "next_transaction")
        /\ call' = NoCall

NextNaive ==
    \/ BothAddTransaction
    \/ BothPreviousTransaction
    \/ BothNextTransaction

SpecNaive == Init /\ [][NextNaive]_vars

(***************************************************************************)
(* Properties.                                                             *)
(***************************************************************************)
InRange(a, addr, len) == a >= addr /\ a < addr + len
AllAddrs == 0..(SPACE - 1)

\* next_transaction repeated until the cursor is at the journal tip
RECURSIVE RedoAll(_)
RedoAll(self) ==
    IF self.transaction_idx >= Len(self.transactions)
    THEN Return(self, "Some")
    ELSE LET stepped == next_transaction(self)
         IN  IF stepped.result = "Some" THEN RedoAll(stepped) ELSE stepped

Redone == RedoAll(Self)

\* C1: undo/redo reversibility.  Once previous_transaction has brought the
\* cursor back to 0, next_transaction repeated until the cursor is at the tip
\* again succeeds every time and leaves every byte and every transaction id
\* of the address space as it was at the tip when the last record was added.
C1_UndoRedoReversible ==
    (/\ last.op = "previous_transaction"
     /\ last.res = "Some"
     /\ transaction_idx = 0)
    => /\ Redone.result = "Some"
       /\ Redone.transaction_idx = Len(transactions)
       /\ Redone.transactions = transactions
       /\ View(Redone.memory) = seen[Len(transactions)]

C1_Witness ==
    /\ last.op = "previous_transaction"
    /\ last.res = "Some"
    /\ transaction_idx = 0
    /\ Len(transactions) = 2
    /\ Redone.transaction_idx = 2
    /\ View(Redone.memory) = seen[2]
    /\ View(Redone.memory) # View(memory)

\* C2: a previous_transaction called right after an accepted add_transaction
\* leaves every byte and every transaction id as it was before that
\* add_transaction.
C2_PreviousUndoesAdd ==
    (/\ last.op = "previous_transaction"
     /\ last.res = "Some"
     /\ last.follows_add)
    => View(memory) = pre

\* The reverted record covered a byte written by an earlier record, which
\* reports that record's id again, and a byte never written before, which
\* reports id 0 and the default value.
C2_Witness ==
    /\ last.op = "previous_transaction"
    /\ last.res = "Some"
    /\ last.follows_add
    /\ View(memory) = pre
    /\ transaction_idx >= 1
    /\ LET reverted == transactions[transaction_idx + 1]
       IN  /\ \E a \in AllAddrs :
                /\ InRange(a, reverted.addr, Len(reverted.data))
                /\ IdAt(memory, a) = transaction_idx
                /\ ByteAt(memory, a) # reverted.data[a - reverted.addr + 1]
           /\ \E b \in AllAddrs :
                /\ InRange(b, reverted.addr, Len(reverted.data))
                /\ IdAt(memory, b) = 0
                /\ ByteAt(memory, b) = default_value

\* C3: the bytes and ids depend on the cursor only.  After every successful
\* next_transaction or previous_transaction they are what they were when the
\* cursor first had its present value, so any walk of such steps that brings
\* the cursor back to where it started brings the bytes and ids back too.
C3_StepsReturnToSameView ==
    (/\ last.op \in {"next_transaction", "previous_transaction"}
     /\ last.res = "Some")
    => View(memory) = seen[transaction_idx]

C3_Witness ==
    /\ last.op = "next_transaction"
    /\ last.res = "Some"
    /\ ~last.follows_add
    /\ transaction_idx = 1
    /\ Len(transactions) = 2
    /\ View(memory) = seen[1]
    /\ View(memory) # seen[0]
    /\ View(memory) # seen[2]

\* C4: write-then-read identity.  Right after an accepted
\* add_transaction(addr, data, _), read(addr, data.len()) returns data.
C4_WriteThenRead ==
    Accepted(last) => read(memory, call.addr, Len(call.data)) = call.data

\* A write across four pages (head, two full pages, tail) into a store with
\* no page allocated.
C4_Witness ==
    /\ Accepted(last)
    /\ Len(transactions) = 1
    /\ call.addr = PAGE_SIZE - 1
    /\ Len(call.data) = 2 * PAGE_SIZE + 2
    /\ read(memory, call.addr, Len(call.data)) = call.data
    /\ \A idx \in 0..(NUM_PAGES - 1) : memory[idx] # None

\* C5: provenance stamping.  After the k-th accepted add_transaction
\* (counted from 0) writing len bytes at addr, every byte of
\* [addr, addr + len) has id k + 1 and every other byte has the id it had
\* before the call.
C5_ProvenanceStamping ==
    Accepted(last) =>
        \A a \in AllAddrs :
            IdAt(memory, a) =
                IF InRange(a, call.addr, Len(call.data))
                THEN Len(transactions)
                ELSE pre[a][2]

C5_Witness ==
    /\ Accepted(last)
    /\ Len(transactions) = 2
    /\ \E a \in AllAddrs : IdAt(memory, a) = 2
    /\ \E a \in AllAddrs : IdAt(memory, a) = 1
    /\ \E a \in AllAddrs : IdAt(memory, a) = 0

\* C6: linear history.  While the cursor is below the journal length every
\* add_transaction returns Err and changes nothing; an add_transaction is
\* accepted only when the cursor is at the journal tip.
C6_LinearHistory ==
    [][/\ (last'.op = "add_transaction" /\ transaction_idx < Len(transactions))
            => /\ last'.res = "Err"
               /\ UNCHANGED <<memory, transactions, transaction_idx>>
       /\ Accepted(last') => transaction_idx = Len(transactions)]_vars

C6_Witness ==
    /\ last.op = "add_transaction"
    /\ last.res = "Err"
    /\ transaction_idx = 1
    /\ Len(transactions) = 2

\* C7: no state change on error.  Whenever add_transaction, next_transaction,
\* previous_transaction or move_to_transaction returns an error, the page
\* store, the journal and the cursor are as before the call.
C7_NoChangeOnError ==
    [][Failed(last') => UNCHANGED <<memory, transactions, transaction_idx>>]_vars

C7_Witness ==
    /\ last.op = "add_transaction"
    /\ last.res = "Err"
    /\ Len(transactions) = 2
    /\ transaction_idx = 0
    /\ \E idx \in 0..(NUM_PAGES - 1) : memory[idx] # None

\* C8: add_transaction called with empty data returns Err.
C8_EmptyDataRejected ==
    (last.op = "add_transaction" /\ call.data = << >>) => last.res = "Err"

\* C9: add_transaction(addr, data, _) with non-empty data returns Err whenever
\* addr + data.len() >= NUM_PAGES * PAGE_SIZE, and is accepted whenever
\* addr + data.len() < NUM_PAGES * PAGE_SIZE and the cursor is at the tip.
C9_RangeChecked ==
    (last.op = "add_transaction" /\ call.data # << >>) =>
        IF call.addr + Len(call.data) >= SPACE
        THEN last.res = "Err"
        ELSE last.res = "Ok" \/ (last.res = "Err" /\ transaction_idx < Len(transactions))

\* C10: next_transaction fails exactly when the cursor equals the journal
\* length, previous_transaction fails exactly when the cursor is 0; in every
\* other state each of them succeeds.
C10_StepsFailExactlyAtEnds ==
    [][/\ last'.op = "next_transaction" =>
            last'.res = IF transaction_idx = Len(transactions) THEN "None" ELSE "Some"
       /\ last'.op = "previous_transaction" =>
            last'.res = IF transaction_idx = 0 THEN "None" ELSE "Some"]_vars

C10_Witness ==
    /\ last.op = "previous_transaction"
    /\ last.res = "None"
    /\ transaction_idx = 0
    /\ Len(transactions) = 2
    /\ \E a \in AllAddrs : IdAt(memory, a) = 0 /\ pre[a][2] # 0

\* C11: cursor monotonicity.  A successful next_transaction increases
\* current_transaction_id by exactly 1, a successful previous_transaction
\* decreases it by exactly 1, and a failing one leaves it unchanged.
C11_CursorMonotonicity ==
    [][/\ last'.op = "next_transaction" =>
            current_transaction_id(Self)' =
                IF last'.res = "Some"
                THEN current_transaction_id(Self) + 1
                ELSE current_transaction_id(Self)
       /\ last'.op = "previous_transaction" =>
            current_transaction_id(Self)' =
                IF last'.res = "Some"
                THEN current_transaction_id(Self) - 1
                ELSE current_transaction_id(Self)]_vars

C11_Witness ==
    /\ last.op = "previous_transaction"
    /\ last.res = "Some"
    /\ current_transaction_id(Self) = 1
    /\ Len(transactions) = 2

\* C12: default read on empty memory.  On a freshly constructed memory, for
\* every addr and size with size > 0 and addr + size <= NUM_PAGES * PAGE_SIZE,
\* read returns size copies of default_value and read_transaction_ids returns
\* size copies of id 0, and neither aborts.
C12_DefaultReadOnEmptyMemory ==
    (/\ last.op \in ByteReads \cup IdReads
     /\ memory = MemoryNew
     /\ call.size > 0
     /\ call.addr + call.size <= SPACE)
    => /\ last.res = "Ok"
       /\ returned = Repeat(IF last.op \in ByteReads THEN default_value ELSE 0,
                            call.size)

\* C13: oracle equivalence.  For every trace of in-bounds add_transaction
\* calls and in-bounds reads, the paged and the naive memory both accept
\* every write, and every read returns the same bytes from both.
C13_OracleEquivalence ==
    /\ last.op = "fuzz_target: write" => last.res = "Ok"
    /\ last.op = "fuzz_target: read" =>
        /\ last.res = "Ok"
        /\ returned = NaiveMemory_read(naive, call.addr, call.size)

C13_Witness ==
    /\ last.op = "fuzz_target: read"
    /\ last.res = "Ok"
    /\ naive.transaction_idx = 2
    /\ call.size = 2 * PAGE_SIZE + 2
    /\ \E i, j, k \in 1..call.size :
        /\ returned[i] = default_value
        /\ returned[j] = transactions[1].data[1]
        /\ returned[k] = transactions[2].data[1]
        /\ transactions[1].data[1] # transactions[2].data[1]

\* The store obtained by applying the records [0, k) of a journal, in order,
\* to a fresh memory.
RECURSIVE Replay(_, _)
Replay(ts, k) ==
    IF k = 0 THEN MemoryNew
    ELSE LET transaction == ts[k]
             written == write_data(Replay(ts, k - 1), transaction.addr,
                                   transaction.data)
         IN  write_transaction_ids(written, transaction.addr,
                                   Repeat(NonZeroU32(k), Len(transaction.data)))

\* C14: move_to_transaction(target_id) with target_id below the journal
\* length returns Ok with the cursor equal to target_id, whatever the cursor
\* was, with no failing step on the way, and leaves the bytes and ids that
\* applying the records [0, target_id) to a fresh memory gives.
C14_MoveToTransactionReaches ==
    (last.op = "move_to_transaction" /\ call.target_id < Len(transactions))
    => /\ last.res = "Ok"
       /\ transaction_idx = call.target_id
       /\ View(memory) = View(Replay(transactions, call.target_id))

C14_Witness ==
    /\ last.op = "move_to_transaction"
    /\ last.res = "Ok"
    /\ last.follows_add
    /\ Len(transactions) = 2
    /\ call.target_id = 0
    /\ transaction_idx = 0
    /\ \E idx \in 0..(NUM_PAGES - 1) : memory[idx] # None

\* C15: move_to_transaction(target_id) with target_id at or above the journal
\* length, the journal length itself included, returns an error and leaves
\* bytes, ids, journal and cursor unchanged.
C15_MoveToTransactionRejects ==
    [][(last'.op = "move_to_transaction" /\ call'.target_id >= Len(transactions))
        => /\ last'.res = "Err"
           /\ UNCHANGED <<memory, transactions, transaction_idx>>]_vars

C15_Witness ==
    /\ last.op = "move_to_transaction"
    /\ last.res = "Err"
    /\ call.target_id = Len(transactions)
    /\ Len(transactions) = 2
    /\ transaction_idx = 1

\* The applied records (1-based positions up to the cursor) whose range
\* contains address b, and the last of them.
Covering(b) ==
    {k \in 1..transaction_idx :
        InRange(b, transactions[k].addr, Len(transactions[k].data))}
LastOf(ks) == CHOOSE k \in ks : \A j \in ks : j <= k

\* C16: journal/store consistency.  In every reachable state and for every
\* address b, the byte at b is the data byte of the highest-indexed record
\* below the cursor whose range contains b and the id is that record's
\* index plus one, or the byte is default_value with id 0 when no record
\* below the cursor contains b; records at or above the cursor have no
\* effect.
C16_JournalStoreConsistency ==
    \A b \in AllAddrs :
        IF Covering(b) = {}
        THEN ByteAt(memory, b) = default_value /\ IdAt(memory, b) = 0
        ELSE LET k == LastOf(Covering(b))
             IN  /\ ByteAt(memory, b) =
                        transactions[k].data[b - transactions[k].addr + 1]
                 /\ IdAt(memory, b) = (k - 1) + 1

C16_Witness ==
    /\ Len(transactions) = 2
    /\ transaction_idx = 1
    /\ \E b \in AllAddrs :
        /\ Covering(b) = {1}
        /\ InRange(b, transactions[2].addr, Len(transactions[2].data))
        /\ transactions[2].data[b - transactions[2].addr + 1] # ByteAt(memory, b)
    /\ \E b \in AllAddrs :
        /\ Covering(b) = {}
        /\ InRange(b, transactions[2].addr, Len(transactions[2].data))
        /\ memory[b \div PAGE_SIZE] # None

\* C17: in every reachable state the cursor is between 0 and the journal
\* length, both included.
C17_CursorInRange ==
    0 <= transaction_idx /\ transaction_idx <= Len(transactions)

C17_Witness ==
    /\ last.op = "next_transaction"
    /\ last.res = "None"
    /\ transaction_idx = Len(transactions)
    /\ Len(transactions) = 2

\* C18: in every reachable state every journal record has data, old_data and
\* old_ids of equal, non-zero length, and addr + data.len() below
\* NUM_PAGES * PAGE_SIZE.
C18_RecordsWellFormed ==
    \A i \in 1..Len(transactions) :
        /\ Len(transactions[i].data) > 0
        /\ Len(transactions[i].old_data) = Len(transactions[i].data)
        /\ Len(transactions[i].old_ids) = Len(transactions[i].data)
        /\ transactions[i].addr + Len(transactions[i].data) < NUM_PAGES * PAGE_SIZE

\* C19: the journal is append-only and its records are immutable.  Across
\* every call the journal length never decreases, only an accepted
\* add_transaction changes it, and every record that was in the journal
\* before the call is the same after it.
C19_JournalAppendOnly ==
    [][/\ Len(transactions') >= Len(transactions)
       /\ Len(transactions') # Len(transactions) =>
            (Accepted(last') /\ Len(transactions') = Len(transactions) + 1)
       /\ \A i \in 1..Len(transactions) : transactions'[i] = transactions[i]]_vars

C19_Witness ==
    /\ last.op = "next_transaction"
    /\ last.res = "Some"
    /\ transaction_idx = 2
    /\ Len(transactions) = 2
    /\ transactions[1] # transactions[2]
    /\ \A i \in 1..2 : transactions[i] # TransactionDefault

\* The byte and the id a slot of the page store holds for an address.
StoredByte(mem, a) ==
    IF mem[a \div PAGE_SIZE] = None
    THEN default_value
    ELSE mem[a \div PAGE_SIZE][1].data[a % PAGE_SIZE]
StoredId(mem, a) ==
    IF mem[a \div PAGE_SIZE] = None
    THEN 0
    ELSE mem[a \div PAGE_SIZE][1].transaction_ids[a % PAGE_SIZE]

\* C20: in every reachable state, for every addr and size with size > 0 and
\* addr + size <= NUM_PAGES * PAGE_SIZE, read(addr, size) returns exactly
\* size bytes, the i-th being the byte stored for address addr + i
\* (default_value when the slot is empty), and read_transaction_ids returns
\* the ids in the same way (0 when the slot is empty).
C20_ReadReturnsStoredBytes ==
    (/\ last.op \in ByteReads \cup IdReads
     /\ call.size > 0
     /\ call.addr + call.size <= SPACE)
    => /\ last.res = "Ok"
       /\ Len(returned) = call.size
       /\ \A i \in 1..call.size :
            returned[i] = IF last.op \in ByteReads
                          THEN StoredByte(memory, call.addr + i - 1)
                          ELSE StoredId(memory, call.addr + i - 1)

\* The page slots that the range of a record overlaps.
PagesOf(transaction) ==
    {idx \in 0..(NUM_PAGES - 1) :
        \E a \in AllAddrs :
            /\ a \div PAGE_SIZE = idx
            /\ InRange(a, transaction.addr, Len(transaction.data))}

\* C21: sparse allocation.  A fresh memory has every slot empty, and in
\* every reachable state a slot holds a page only if the range of some
\* accepted transaction overlaps that page.
C21_SparseAllocation ==
    /\ last.op = "new" => \A idx \in 0..(NUM_PAGES - 1) : memory[idx] = None
    /\ \A idx \in 0..(NUM_PAGES - 1) :
        memory[idx] # None =>
            \E k \in 1..Len(transactions) : idx \in PagesOf(transactions[k])

C21_Witness ==
    /\ Len(transactions) = 2
    /\ transaction_idx = 2
    /\ memory[0] # None
    /\ memory[1] # None
    /\ memory[2] = None
    /\ memory[3] = None
    /\ PagesOf(transactions[1]) \cup PagesOf(transactions[2]) = {0, 1}

\* C22: a page is never deallocated.  A slot that holds a page holds a page
\* after every later call, previous_transaction calls that revert every byte
\* of the page included.
C22_PagesNeverDeallocated ==
    [][\A idx \in 0..(NUM_PAGES - 1) :
        memory[idx] # None => memory'[idx] # None]_vars

C22_Witness ==
    /\ last.op = "previous_transaction"
    /\ last.res = "Some"
    /\ transaction_idx = 0
    /\ View(memory) = View(MemoryNew)
    /\ \A idx \in 0..(NUM_PAGES - 1) : memory[idx] # None

\* C23: the unreachable!() branch of write_page_transaction_ids is never
\* reached by add_transaction, next_transaction, previous_transaction or
\* move_to_transaction: the bytes written first have allocated every page
\* the ids are written to.
C23_UnreachableNeverReached ==
    last.res # "unreachable"

C23_Witness ==
    /\ Accepted(last)
    /\ Len(transactions) = 1
    /\ PagesOf(transactions[1]) = 0..(NUM_PAGES - 1)
    /\ \A idx \in 0..(NUM_PAGES - 1) :
        /\ memory[idx] # None
        /\ \E i \in 0..(PAGE_SIZE - 1) : memory[idx][1].transaction_ids[i] = 1

\* C24: an accepted add_transaction appends exactly one record and advances
\* the cursor by exactly one, so the cursor equals the journal length right
\* after it, and the next_transaction it performs never fails: an
\* add_transaction that does not return has left the journal as it was.
C24_AddAppendsAndAdvances ==
    [][/\ Accepted(last') =>
            /\ Len(transactions') = Len(transactions) + 1
            /\ transaction_idx' = transaction_idx + 1
            /\ transaction_idx' = Len(transactions')
       /\ (last'.op = "add_transaction" /\ last'.res \in {"panic", "unreachable"})
            => UNCHANGED <<memory, transactions, transaction_idx>>]_vars

C24_Witness ==
    /\ Accepted(last)
    /\ Len(transactions) = 2
    /\ transaction_idx = 2
    /\ last.follows_add

\* C25: pre-image snapshot.  The record stored by an accepted
\* add_transaction(addr, data, code_location) holds the given addr, data and
\* code_location, and its old_data and old_ids are what read and
\* read_transaction_ids return for (addr, data.len()) in the state just
\* before the write.
C25_PreImageSnapshot ==
    [][Accepted(last') =>
        LET transaction == transactions'[Len(transactions')]
        IN  /\ transaction.addr = call'.addr
            /\ transaction.data = call'.data
            /\ transaction.code_location = call'.code_location
            /\ transaction.old_data = read(memory, call'.addr, Len(call'.data))
            /\ transaction.old_ids =
                    read_transaction_ids(memory, call'.addr, Len(call'.data))]_vars

C25_Witness ==
    /\ Accepted(last)
    /\ Len(transactions) = 2
    /\ \E i, j \in 1..Len(transactions[2].data) :
        /\ transactions[2].old_ids[i] = 1
        /\ transactions[2].old_data[i] # default_value
        /\ transactions[2].old_data[i] # transactions[2].data[i]
        /\ transactions[2].old_ids[j] = 0
        /\ transactions[2].old_data[j] = default_value

\* C26: write_data(addr, data) with non-empty data inside the address space
\* sets the byte at addr + i to data[i] for every i < data.len(), in one page
\* and over several, and leaves every byte outside [addr, addr + data.len())
\* reading as before, default_value in a newly allocated page.
C26_WriteDataSetsRange ==
    (last.op = "write_data" /\ last.res = "Ok") =>
        \A a \in AllAddrs :
            ByteAt(memory, a) =
                IF InRange(a, call.addr, Len(call.data))
                THEN call.data[a - call.addr + 1]
                ELSE pre[a][1]

C26_Witness ==
    /\ last.op = "write_data"
    /\ last.res = "Ok"
    /\ call.addr = PAGE_SIZE - 1
    /\ Len(call.data) = 2 * PAGE_SIZE + 2
    /\ \E a \in 0..(PAGE_SIZE - 1) : pre[a][1] # default_value
    /\ pre[SPACE - 1] = <<default_value, 0>>
    /\ ByteAt(memory, SPACE - 1) = default_value
    /\ ByteAt(memory, SPACE - PAGE_SIZE) = call.data[Len(call.data)]

\* C27: read, read_transaction_ids and current_transaction_id are pure.  A
\* call of any of them, in any reachable state, changes no byte, no id, no
\* slot (an empty slot that is read stays empty), no journal record and not
\* the cursor.
C27_ReadsArePure ==
    [][last'.op \in ByteReads \cup IdReads \cup {"current_transaction_id"}
        => UNCHANGED <<memory, transactions, transaction_idx>>]_vars

C27_Witness ==
    /\ last.op = "Memory::read"
    /\ last.res = "Ok"
    /\ Len(transactions) = 2
    /\ \E a \in AllAddrs :
        /\ InRange(a, call.addr, call.size)
        /\ memory[a \div PAGE_SIZE] = None
        /\ returned[a - call.addr + 1] = default_value
    /\ \E a \in AllAddrs :
        /\ InRange(a, call.addr, call.size)
        /\ memory[a \div PAGE_SIZE] # None
        /\ returned[a - call.addr + 1] # default_value

\* C28: in every reachable state every byte's transaction id lies in
\* [0, cursor]: no byte carries the id of a pending record or of a record
\* that does not exist.
C28_IdsWithinCursor ==
    \A a \in AllAddrs : IdAt(memory, a) \in 0..transaction_idx

C28_Witness ==
    /\ last.op = "previous_transaction"
    /\ last.res = "Some"
    /\ transaction_idx = 1
    /\ Len(transactions) = 2
    /\ \E a \in AllAddrs :
        /\ InRange(a, transactions[2].addr, Len(transactions[2].data))
        /\ IdAt(memory, a) = 1
    /\ \E a \in AllAddrs : IdAt(memory, a) = 0

\* C29: the id stamped by next_transaction for the record at index k is never
\* the reserved value 0 (None) and equals k + 1, for every journal length:
\* no wrap-around at k + 1 = 2^32.  (After the step the cursor is k + 1.)
C29_StampedIdIsCursorPlusOne ==
    last.op = "next_transaction" =>
        /\ returned # Wide(0)
        /\ returned = transaction_idx

\* C30: NaiveMemory and Memory agree under stepping.  After every
\* add_transaction, previous_transaction or next_transaction made on both,
\* the two calls returned the same result, and both stores have the same
\* cursor, the same journal records, and the same bytes and transaction ids
\* at every address.
C30_NaiveAgreesUnderStepping ==
    last.op \in {"add_transaction", "previous_transaction", "next_transaction"} =>
        /\ returned[1] = returned[2]
        /\ naive.transaction_idx = transaction_idx
        /\ naive.transactions = transactions
        /\ \A a \in AllAddrs :
            /\ NaiveMemory_read(naive, a, 1) = read(memory, a, 1)
            /\ NaiveMemory_read_transaction_ids(naive, a, 1)
                = read_transaction_ids(memory, a, 1)

====
